---------------------------- MODULE Spec2Model ----------------------------
(* Data-access layer of the music-catalog dashboard: the three entry     *)
(* scripts (app.py, app_full_crud.py, test.py), their startup credential *)
(* check, the pooled engine, fetch_df, the twelve RETURNING mutations of *)
(* app_full_crud.py and the joined views of app.py, run against a model  *)
(* of the relational store.                                              *)
(*                                                                       *)
(* Conventions: Python None in a scalar slot is the string "None"; a     *)
(* DataFrame is the sequence of its rows; a row is the tuple of its      *)
(* columns, key first; a mutation's return value is the row, or NoRow    *)
(* for Python None.                                                      *)
EXTENDS Integers, Sequences, FiniteSets, TLC

VARIABLES
    program,    \* which script of the repository is being run
    env,        \* os.getenv of PGDATABASE, PGUSER, PGPASSWORD
    pc,         \* position of the script
    db,         \* committed contents of the store, one field per table
    tx,         \* contents as seen inside the open transaction
    seq,        \* per-table generator of the surrogate keys
    onDelete,   \* the schema's foreign-key rule on the association tables
    call,       \* the data-access call in progress / last completed
    pre,        \* committed contents when the call started
    exc,        \* exception travelling inside the call ("" when none)
    df,         \* DataFrame produced by pd.read_sql inside the call
    result,     \* value returned to the caller by the last call
    raised,     \* the last call let an exception escape to its caller
    message,    \* the last call reported a message with st.error
    connected,  \* a connection to the store has been opened in this run
    executed,   \* a statement has been sent to the store in this run
    prev,       \* the call completed before the current one, with its outcome
    fault,      \* where the store or the pool failed the current call ("" = nowhere)
    ncalls,     \* number of data-access calls started
    sent,       \* statements the current call has sent to the store
    sess,       \* per browser session: where its script run stands with the pool
    flash,      \* st.session_state: just_inserted, just_updated, just_deleted
    tab,        \* the tab the script run is rendering (0 = no run under way)
    stage,      \* where in that tab: "flash" loop ahead, "body", form "handled"
    shown,      \* st.success / st.warning messages of the current run, in order
    nshown,     \* confirmations displayed since a record was last put in a slot
    stored,     \* the record last put in a flash slot, with slot and table
    submitted,  \* a form or button of the current run has been handled
    mutated,    \* a mutation function has been called in the current run
    ended,      \* how the last script run ended
    renders     \* script runs started

(* One script run and its data-access call *)
run == <<program, env, pc, db, tx, seq, onDelete, call, pre, exc, df,
         result, raised, message, connected, executed, prev, fault, ncalls,
         sent>>

(* What lives beside it: the other sessions of the server *)
outside == <<sess, flash, tab, stage, shown, nshown, stored, submitted,
             mutated, ended, renders>>

(* The run without its count of calls *)
callstate == <<program, env, pc, db, tx, seq, onDelete, call, pre, exc, df,
               result, raised, message, connected, executed, prev, fault,
               sent>>

vars == <<run, outside>>

-----------------------------------------------------------------------------
(* Bounds of the model *)

MaxSeed == 1        \* rows per entity table present before the run
MaxId == 2          \* largest surrogate key the store hands out
MaxCalls == 2       \* data-access calls per run
MaxLim == 3         \* largest LIMIT passed to a query
MaxArtists == 2     \* artists in a database the views are run on
MaxSongs == 2       \* songs in a database the views are run on
MaxUsers == 2       \* users in a database the most-liked view is run on
MaxLikedArtists == 1    \* artists in a database the most-liked view is run on
MaxPlaylists == 2    \* playlists in a database the user-activity view is run on
MaxSessions == 6    \* browser sessions open on the server at once
MaxRenders == 3     \* script runs of one session

(* Program constants *)

statement_timeout == 8000
pool_timeout == 5
connect_timeout == 5
pool_size == 5
chart_limit == 5    \* LIMIT of the popularity chart's query
max_overflow == 0
min_value == 1
max_value == 2000

None == "None"
NoRow == <<>>
EmptyDataFrame == <<>>

Names == {"a", "b"}
Locations == {None, "x"}
Dates == {"2024-01-01", "2024-06-01"}
Counts == {0, 1}

Ids == 1..MaxId
Sessions == 1..MaxSessions
Entities == {"User_table", "Artist", "Song", "Playlist"}
Creds == {"PGDATABASE", "PGUSER", "PGPASSWORD"}
FlashKeys == {"just_inserted", "just_updated", "just_deleted"}

Min(S) == CHOOSE m \in S : \A x \in S : m <= x
MinOf(a, b) == IF a <= b THEN a ELSE b

-----------------------------------------------------------------------------
(* Python values and int() *)

(* The Python ints of the model, and what a caller may pass in their     *)
(* place: a str of digits, a str that is no number.                      *)
PyInts == 0..(MaxId + MaxLim)
DigitStrs == {ToString(i) : i \in PyInts}
NonIntIds == {"1", "abc"}
NonIntCounts == {"many"}
NonDates == {"soon"}

(* isinstance(v, int) *)
IsInt(v) == ToString(v) \in DigitStrs

(* int(v) returns: an int as it is, a str of digits as its number.       *)
CanInt(v) == IsInt(v) \/ v \in DigitStrs

(* int(v); ValueError where CanInt(v) is false *)
int(v) == IF IsInt(v) THEN v ELSE CHOOSE i \in PyInts : ToString(i) = v

-----------------------------------------------------------------------------
(* The relational store: tables, statements and what executing one does. *)

(* A statement a data-access function sends, with its bound parameters:  *)
(* verb and tbl stand for the SQL text, key/vals/lim for the parameters, *)
(* via for the primitive that runs it: "begin" is a bare                 *)
(* `with engine.begin()`, "fetch_df" is fetch_df's `with                 *)
(* engine.connect()` inside try/except, "connect" is the bare            *)
(* `with engine.connect()` of test.py.                                   *)
(* args are the arguments the caller passed to fn, in order; key and     *)
(* vals are those of them the statement's parameters are made from.      *)
Stmt(fn, args, verb, tbl, key, vals, lim, via) ==
    [fn |-> fn, args |-> args, verb |-> verb, tbl |-> tbl, key |-> key,
     vals |-> vals, lim |-> lim, via |-> via]

NoCall == Stmt("", <<>>, "", "", 0, <<>>, 0, "")

RECURSIVE SortedKeys(_)
SortedKeys(S) ==
    IF S = {} THEN <<>>
    ELSE LET m == Min(S) IN <<m>> \o SortedKeys(S \ {m})

(* SELECT key, columns FROM t ORDER BY key *)
OrderedRows(t) ==
    LET ks == SortedKeys(DOMAIN t)
    IN [i \in 1..Len(ks) |-> <<ks[i]>> \o t[ks[i]]]

(* LIMIT :lim; lim = 0 stands for a query without a LIMIT clause *)
Limit(rows, lim) ==
    IF lim = 0 THEN rows ELSE SubSeq(rows, 1, MinOf(lim, Len(rows)))

(* Association rows that reference row id of entity table t. *)
Referencing(d, t, id) ==
    CASE t = "User_table" -> {<<"Likes", r>> : r \in {x \in d.Likes : x[1] = id}}
                             \cup {<<"Creates", r>> : r \in {x \in d.Creates : x[1] = id}}
      [] t = "Artist" -> {<<"Produces", r>> : r \in {x \in d.Produces : x[1] = id}}
      [] t = "Song" -> {<<"Produces", r>> : r \in {x \in d.Produces : x[2] = id}}
                       \cup {<<"Likes", r>> : r \in {x \in d.Likes : x[2] = id}}
      [] t = "Playlist" -> {<<"Creates", r>> : r \in {x \in d.Creates : x[2] = id}}
      [] OTHER -> {}

Unreferenced(d, t, id) ==
    LET gone == Referencing(d, t, id)
    IN [d EXCEPT !.Produces = {r \in @ : <<"Produces", r>> \notin gone},
                 !.Likes = {r \in @ : <<"Likes", r>> \notin gone},
                 !.Creates = {r \in @ : <<"Creates", r>> \notin gone}]

(* UPDATE without its WHERE clause *)
UpdateEveryRow(d, t, id, vals) ==
    [d EXCEPT ![t] = [k \in DOMAIN d[t] |-> vals]]

(* DELETE without its WHERE clause *)
DeleteEveryRow(d, t, id) ==
    [d EXCEPT ![t] = [k \in {} |-> d[t][k]]]

(* INSERT INTO t(columns) VALUES (:vals): the key comes from the         *)
(* table's generator.                                                    *)
InsertRow(d, t, id, vals) ==
    [d EXCEPT ![t] = (id :> vals) @@ @]

(* UPDATE t SET every non-key column = :vals WHERE key = :id *)
UpdateRow(d, t, id, vals) ==
    IF id \in DOMAIN d[t] THEN [d EXCEPT ![t][id] = vals] ELSE d

(* DELETE FROM t WHERE key = :id; under ON DELETE CASCADE the rows that  *)
(* reference it go with it.                                              *)
DeleteRow(d, t, id) ==
    IF id \in DOMAIN d[t]
    THEN [Unreferenced(d, t, id) EXCEPT
             ![t] = [k \in (DOMAIN d[t]) \ {id} |-> d[t][k]]]
    ELSE d

(* The update and delete functions build their parameters with          *)
(* `int(sid)` inside the `with engine.begin()` block; names, dates and   *)
(* counts are bound as they came.                                        *)
BindRaises(c) == c.verb \in {"UPDATE", "DELETE"} /\ ~CanInt(c.key)

Bind(c) ==
    IF c.verb \in {"UPDATE", "DELETE"} THEN [c EXCEPT !.key = int(@)] ELSE c

(* The store cannot read a bound value as its column's type: a release   *)
(* date that is no date, a song count that is no number.                 *)
Mistyped(c) ==
    /\ c.verb \in {"INSERT", "UPDATE"}
    /\ \/ c.tbl = "Song" /\ c.vals[2] \notin Dates
       \/ c.tbl = "Playlist" /\ ~CanInt(c.vals[2])

(* The store must reject the statement: a key collision on insert, or a  *)
(* delete of a row still referenced under ON DELETE RESTRICT.            *)
Violates(c, d, s, rule) ==
    \/ c.verb = "INSERT" /\ s[c.tbl] \in DOMAIN d[c.tbl]
    \/ /\ c.verb = "DELETE"
       /\ c.key \in DOMAIN d[c.tbl]
       /\ rule = "restrict"
       /\ Referencing(d, c.tbl, c.key) # {}

(* Contents after the statement has run. *)
StmtEffect(c, d, s) ==
    CASE c.verb = "INSERT" -> InsertRow(d, c.tbl, s[c.tbl], c.vals)
      [] c.verb = "UPDATE" -> UpdateRow(d, c.tbl, c.key, c.vals)
      [] c.verb = "DELETE" -> DeleteRow(d, c.tbl, c.key)
      [] OTHER -> d

(* The generator moves on with every insert the store executes. *)
StmtSeq(c, s) ==
    IF c.verb = "INSERT" THEN [s EXCEPT ![c.tbl] = @ + 1] ELSE s

(* Every order of the group keys S that ORDER BY cnt DESC allows: ties   *)
(* come out in an order the store chooses.                               *)
DescOrders(S, cnt) ==
    {o \in [1..Cardinality(S) -> S] :
        /\ \A i, j \in DOMAIN o : i # j => o[i] # o[j]
        /\ \A i, j \in DOMAIN o : i < j => cnt[o[i]] >= cnt[o[j]]}

(* The artist view with JOIN in place of LEFT JOIN *)
ArtistSongInnerJoin(d) ==
    {<<p[1], p>> : p \in {x \in d.Produces : x[1] \in DOMAIN d.Artist}}

(* app.py, "Artist Song Counts":                                         *)
(*   FROM Artist a LEFT JOIN Produces p ON a.artistID = p.artistID       *)
(* A joined row is <<artistID, produces row>>, the produces row being    *)
(* <<>> (all NULL) for an artist the join finds nothing for.             *)
ArtistSongJoin(d) ==
    UNION {IF \E p \in d.Produces : p[1] = a
           THEN {<<a, p>> : p \in {x \in d.Produces : x[1] = a}}
           ELSE {<<a, <<>>>>}
           : a \in DOMAIN d.Artist}

(*   GROUP BY a.artistID, a.artist_name *)
ArtistSongGroups(d) ==
    {<<j[1], d.Artist[j[1]][1]>> : j \in ArtistSongJoin(d)}

(*   SELECT a.artist_name, COUNT(p.song_id) AS song_count                *)
(*   ORDER BY song_count DESC LIMIT :lim                                 *)
ArtistSongCounts(d, lim) ==
    LET G == ArtistSongGroups(d)
        J == ArtistSongJoin(d)
        cnt == [g \in G |->
                  Cardinality({j \in J : /\ j[1] = g[1]
                                         /\ d.Artist[j[1]][1] = g[2]
                                         /\ j[2] # <<>>})]
    IN {Limit([i \in DOMAIN o |-> <<o[i][2], cnt[o[i]]>>], lim) :
           o \in DescOrders(G, cnt)}

(* app.py, "Most Liked Songs":                                           *)
(*   FROM Song s JOIN Produces p ON s.song_id = p.song_id                *)
(*               JOIN Artist a ON p.artistID = a.artistID                *)
(*               LEFT JOIN Likes l ON s.song_id = l.song_id              *)
(* A joined row is <<song_id, produces row, likes row>>, the likes row   *)
(* being <<>> for a song nobody likes.                                   *)
MostLikedJoin(d) ==
    UNION {IF \E l \in d.Likes : l[2] = p[2]
           THEN {<<p[2], p, l>> : l \in {x \in d.Likes : x[2] = p[2]}}
           ELSE {<<p[2], p, <<>>>>}
           : p \in {x \in d.Produces : /\ x[2] \in DOMAIN d.Song
                                       /\ x[1] \in DOMAIN d.Artist}}

(*   GROUP BY s.song_id, s.songName, a.artist_name *)
MostLikedGroups(d) ==
    {<<j[1], d.Song[j[1]][1], d.Artist[j[2][1]][1]>> : j \in MostLikedJoin(d)}

(*   SELECT s.songName, a.artist_name, COUNT(l.userID) AS like_count     *)
(*   ORDER BY like_count DESC LIMIT :lim                                 *)
MostLikedSongs(d, lim) ==
    LET G == MostLikedGroups(d)
        J == MostLikedJoin(d)
        cnt == [g \in G |->
                  Cardinality({j \in J : /\ j[1] = g[1]
                                         /\ d.Artist[j[2][1]][1] = g[3]
                                         /\ j[3] # <<>>})]
    IN {Limit([i \in DOMAIN o |-> <<o[i][2], o[i][3], cnt[o[i]]>>], lim) :
           o \in DescOrders(G, cnt)}

(* app.py, "User Activity":                                              *)
(*   FROM User_table u LEFT JOIN Likes l ON u.userID = l.userID          *)
(*                     LEFT JOIN Creates c ON u.userID = c.userID        *)
(* A joined row is <<userID, likes row, creates row>>, either of them    *)
(* <<>> where the join found nothing.                                    *)
UserActivityJoin(d) ==
    UNION {LET ls == {x \in d.Likes : x[1] = u}
               cs == {x \in d.Creates : x[1] = u}
           IN (IF ls = {} THEN {<<>>} ELSE ls) \X (IF cs = {} THEN {<<>>} ELSE cs)
               \X {u}
           : u \in DOMAIN d.User_table}

(* COUNT(l.song_id), COUNT(c.playlistID): the joined rows of user u that *)
(* have one                                                              *)
UserActivityCounts(J, u) ==
    <<Cardinality({j \in J : j[3] = u /\ j[1] # <<>>}),
      Cardinality({j \in J : j[3] = u /\ j[2] # <<>>})>>

(* COUNT(DISTINCT l.song_id), COUNT(DISTINCT c.playlistID) over the      *)
(* joined rows of user u                                                 *)
UserActivityDistinctCounts(J, u) ==
    <<Cardinality({j[1][2] : j \in {x \in J : x[3] = u /\ x[1] # <<>>}}),
      Cardinality({j[2][2] : j \in {x \in J : x[3] = u /\ x[2] # <<>>}})>>

(*   SELECT u.userName, COUNT(DISTINCT ...) AS songs_liked,              *)
(*          COUNT(DISTINCT ...) AS playlists_created                     *)
(*   GROUP BY u.userID, u.userName ORDER BY songs_liked DESC LIMIT :lim  *)
UserActivity(d, lim) ==
    LET J == UserActivityJoin(d)
        G == {<<j[3], d.User_table[j[3]][1]>> : j \in J}
        cnt == [g \in G |-> UserActivityDistinctCounts(J, g[1])]
        liked == [g \in G |-> cnt[g][1]]
    IN {Limit([i \in DOMAIN o |-> <<o[i][2], cnt[o[i]][1], cnt[o[i]][2]>>], lim) :
           o \in DescOrders(G, liked)}

(* app.py, "Top 10 Most Liked Songs" chart:                              *)
(*   SELECT s.songName, COUNT(l.userID) AS like_count                    *)
(*   FROM Song s LEFT JOIN Likes l ON s.song_id = l.song_id              *)
(*   GROUP BY s.songName ORDER BY like_count DESC LIMIT 5                *)
(* A joined row is <<song_id, likes row>>, the likes row <<>> for a song *)
(* nobody likes; a group is a song name.                                 *)
PopularityJoin(d) ==
    UNION {LET ls == {x \in d.Likes : x[2] = s}
           IN {s} \X (IF ls = {} THEN {<<>>} ELSE ls)
           : s \in DOMAIN d.Song}

PopularityChart(d, lim) ==
    LET J == PopularityJoin(d)
        G == {d.Song[j[1]][1] : j \in J}
        cnt == [g \in G |->
                  Cardinality({j \in J : d.Song[j[1]][1] = g /\ j[2] # <<>>})]
    IN {Limit([i \in DOMAIN o |-> <<o[i], cnt[o[i]]>>], lim) :
           o \in DescOrders(G, cnt)}

(* The DataFrames pd.read_sql may come back with for statement c, run    *)
(* on contents d with generators s.                                      *)
StmtRows(c, d, s) ==
    CASE c.verb = "INSERT" -> {<< <<s[c.tbl]>> \o c.vals >>}
      [] c.verb = "UPDATE" ->
            {IF c.key \in DOMAIN d[c.tbl] THEN << <<c.key>> \o c.vals >> ELSE <<>>}
      [] c.verb = "DELETE" ->
            {IF c.key \in DOMAIN d[c.tbl]
             THEN << <<c.key>> \o d[c.tbl][c.key] >> ELSE <<>>}
      [] c.verb = "SELECT" -> {Limit(OrderedRows(d[c.tbl]), c.lim)}
      [] c.verb = "ARTIST_SONG_COUNTS" -> ArtistSongCounts(d, c.lim)
      [] c.verb = "MOST_LIKED_SONGS" -> MostLikedSongs(d, c.lim)
      [] c.verb = "USER_ACTIVITY" -> UserActivity(d, c.lim)
      [] c.verb = "POPULARITY" -> PopularityChart(d, c.lim)
      [] c.verb = "PG_TABLES" ->
            {Limit(<<<<"Artist">>, <<"Playlist">>, <<"Song">>, <<"User_table">>>>, c.lim)}

-----------------------------------------------------------------------------
(* Startup of the three scripts *)

(* Python truthiness of an os.getenv value *)
Truthy(v) == v # None /\ v # ""

(* all([PGDATABASE, PGUSER, PGPASSWORD]) *)
all(e) == \A k \in Creds : Truthy(e[k])

(* app.py and app_full_crud.py: `if not all([...]): st.error; st.stop()` *)
(* before the engine is made; create_engine itself opens no connection.  *)
Startup ==
    /\ pc = "startup"
    /\ program \in {"app", "app_full_crud"}
    /\ IF all(env)
       THEN pc' = "idle" /\ message' = message
       ELSE pc' = "stopped" /\ message' = TRUE
    /\ UNCHANGED <<program, env, db, tx, seq, onDelete, call, pre, exc, df,
                   result, raised, connected, executed, prev, fault, ncalls>>
    /\ UNCHANGED <<outside, sent>>

(* A data-access call starts: remember the previous one, take a          *)
(* snapshot of the committed contents, go and get a connection.          *)
Start(c) ==
    /\ pc = "idle"
    /\ ncalls < MaxCalls
    /\ call' = c
    /\ prev' = [call |-> call, result |-> result, raised |-> raised,
                message |-> message]
    /\ pre' = db
    /\ exc' = ""
    /\ df' = EmptyDataFrame
    /\ result' = NoRow
    /\ raised' = FALSE
    /\ message' = FALSE
    /\ fault' = ""
    /\ ncalls' = ncalls + 1
    /\ sent' = <<>>
    /\ pc' = "checkout"
    /\ UNCHANGED <<program, env, db, tx, seq, onDelete, connected, executed>>
    /\ UNCHANGED outside

(* test.py has no credential check: it builds the URL from whatever      *)
(* os.getenv gave, makes the engine and connects.                        *)
test ==
    /\ pc = "startup"
    /\ program = "test"
    /\ call' = Stmt("test", <<>>, "PG_TABLES", "pg_tables", 0, <<>>, 10, "connect")
    /\ pre' = db
    /\ ncalls' = ncalls + 1
    /\ pc' = "checkout"
    /\ UNCHANGED <<program, env, db, tx, seq, onDelete, exc, df, result,
                   raised, message, connected, executed, prev, fault>>
    /\ UNCHANGED <<outside, sent>>

-----------------------------------------------------------------------------
(* app_full_crud.py: the flat lists *)

fetch_users ==
    /\ program = "app_full_crud"
    /\ Start(Stmt("fetch_users", <<>>, "SELECT", "User_table", 0, <<>>, 0, "fetch_df"))

fetch_artists ==
    /\ program = "app_full_crud"
    /\ Start(Stmt("fetch_artists", <<>>, "SELECT", "Artist", 0, <<>>, 0, "fetch_df"))

fetch_albums ==
    /\ program = "app_full_crud"
    /\ Start(Stmt("fetch_albums", <<>>, "SELECT", "Album", 0, <<>>, 0, "fetch_df"))

fetch_songs(limit) ==
    /\ program = "app_full_crud"
    /\ Start(Stmt("fetch_songs", <<limit>>, "SELECT", "Song", 0, <<>>, limit, "fetch_df"))

fetch_playlists ==
    /\ program = "app_full_crud"
    /\ Start(Stmt("fetch_playlists", <<>>, "SELECT", "Playlist", 0, <<>>, 0, "fetch_df"))

(* app_full_crud.py: the mutations, each one statement with RETURNING    *)
(* under `with engine.begin()`.  An insert needs a key the model's       *)
(* bound still allows.  Keys, counts and limits are passed as Python     *)
(* ints (selectbox keys, number_input values), which int() hands back    *)
(* as they are; the functions themselves take whatever they are given. *)

insert_song(name, date_released) ==
    /\ program = "app_full_crud"
    /\ seq["Song"] <= MaxId
    /\ Start(Stmt("insert_song", <<name, date_released>>,
                  "INSERT", "Song", 0, <<name, date_released>>, 0, "begin"))

update_song(sid, name, date_released) ==
    /\ program = "app_full_crud"
    /\ Start(Stmt("update_song", <<sid, name, date_released>>,
                  "UPDATE", "Song", sid, <<name, date_released>>, 0, "begin"))

delete_song(sid) ==
    /\ program = "app_full_crud"
    /\ Start(Stmt("delete_song", <<sid>>, "DELETE", "Song", sid, <<>>, 0, "begin"))

(* insert_artist with its two parameters bound the wrong way round *)
insert_artist_swapped(name, location) ==
    /\ program = "app_full_crud"
    /\ seq["Artist"] <= MaxId
    /\ Start(Stmt("insert_artist", <<name, location>>,
                  "INSERT", "Artist", 0, <<location, name>>, 0, "begin"))

insert_artist(name, location) ==
    /\ program = "app_full_crud"
    /\ seq["Artist"] <= MaxId
    /\ Start(Stmt("insert_artist", <<name, location>>,
                  "INSERT", "Artist", 0, <<name, location>>, 0, "begin"))

update_artist(aid, name, location) ==
    /\ program = "app_full_crud"
    /\ Start(Stmt("update_artist", <<aid, name, location>>,
                  "UPDATE", "Artist", aid, <<name, location>>, 0, "begin"))

delete_artist(aid) ==
    /\ program = "app_full_crud"
    /\ Start(Stmt("delete_artist", <<aid>>, "DELETE", "Artist", aid, <<>>, 0, "begin"))

insert_user(username) ==
    /\ program = "app_full_crud"
    /\ seq["User_table"] <= MaxId
    /\ Start(Stmt("insert_user", <<username>>, "INSERT", "User_table", 0, <<username>>, 0, "begin"))

update_user(uid, username) ==
    /\ program = "app_full_crud"
    /\ Start(Stmt("update_user", <<uid, username>>,
                  "UPDATE", "User_table", uid, <<username>>, 0, "begin"))

delete_user(uid) ==
    /\ program = "app_full_crud"
    /\ Start(Stmt("delete_user", <<uid>>, "DELETE", "User_table", uid, <<>>, 0, "begin"))

insert_playlist(name, num_songs) ==
    /\ program = "app_full_crud"
    /\ seq["Playlist"] <= MaxId
    /\ Start(Stmt("insert_playlist", <<name, num_songs>>,
                  "INSERT", "Playlist", 0, <<name, num_songs>>, 0, "begin"))

update_playlist(pid, name, num_songs) ==
    /\ program = "app_full_crud"
    /\ Start(Stmt("update_playlist", <<pid, name, num_songs>>,
                  "UPDATE", "Playlist", pid, <<name, num_songs>>, 0, "begin"))

(* delete_playlist with the statement of another table *)
delete_playlist_album(pid) ==
    /\ program = "app_full_crud"
    /\ Start(Stmt("delete_playlist", <<pid>>, "DELETE", "Album", pid, <<>>, 0, "begin"))

delete_playlist(pid) ==
    /\ program = "app_full_crud"
    /\ Start(Stmt("delete_playlist", <<pid>>, "DELETE", "Playlist", pid, <<>>, 0, "begin"))

(* app.py: the flat list at the head of each of its five tabs,           *)
(*   SELECT * FROM <table> ORDER BY <key> LIMIT :lim                     *)
(* with the sidebar's row limit.                                         *)
ListTables == {"User_table", "Song", "Album", "Artist", "Playlist"}

(* The values the sidebar's number_input lets through, as far as the     *)
(* model's limits go                                                     *)
RowLimits == {l \in 1..MaxLim : min_value <= l /\ l <= max_value}

flat_list(tbl, row_limit) ==
    /\ program = "app"
    /\ Start(Stmt("fetch_df", <<row_limit>>, "SELECT", tbl, 0, <<>>,
                  int(row_limit), "fetch_df"))

(* app.py: the two aggregate views, each through fetch_df *)

artist_song_counts(row_limit) ==
    /\ program = "app"
    /\ Start(Stmt("artist_song_counts", <<row_limit>>, "ARTIST_SONG_COUNTS", "Artist", 0, <<>>,
                  row_limit, "fetch_df"))

most_liked_songs(row_limit) ==
    /\ program = "app"
    /\ Start(Stmt("most_liked_songs", <<row_limit>>, "MOST_LIKED_SONGS", "Song", 0, <<>>,
                  row_limit, "fetch_df"))

user_activity(row_limit) ==
    /\ program = "app"
    /\ Start(Stmt("user_activity", <<row_limit>>, "USER_ACTIVITY", "User_table", 0, <<>>,
                  int(row_limit), "fetch_df"))

(* df_popular = fetch_df(sql), the limit written in the statement *)
popularity_chart ==
    /\ program = "app"
    /\ Start(Stmt("popularity_chart", <<>>, "POPULARITY", "Song", 0, <<>>,
                  chart_limit, "fetch_df"))

-----------------------------------------------------------------------------
(* The engine and the steps of one call *)

(* The statement timeout the session runs under: the apps' connect       *)
(* listener sets it on every new connection, test.py's engine has no     *)
(* listener (0 = none).                                                  *)
SessionTimeout(prog) == IF prog = "test" THEN 0 ELSE statement_timeout

(* engine.connect() / engine.begin(): the pool hands out a connection,   *)
(* or gives up (pool timeout, connect timeout, failed pre-ping) and      *)
(* raises.                                                               *)
EngineCheckout ==
    /\ pc = "checkout"
    /\ \/ /\ connected' = TRUE
          /\ pc' = "execute"
          /\ UNCHANGED <<exc, fault>>
       \/ /\ pool_timeout > 0 /\ connect_timeout > 0
          /\ exc' = "TimeoutError"
          /\ fault' = "checkout"
          /\ pc' = "exit"
          /\ connected' = connected
    /\ UNCHANGED <<program, env, db, tx, seq, onDelete, call, pre, df, result,
                   raised, message, executed, prev, ncalls>>
    /\ UNCHANGED <<outside, sent>>

(* pd.read_sql(text(sql), conn, params): building params raises         *)
(* ValueError before anything is sent; otherwise the store runs the      *)
(* statement and hands back its rows, or fails it (constraint, bad       *)
(* value, lost connection), or the statement runs on without finishing.  *)
read_sql ==
    /\ pc = "execute"
    /\ IF BindRaises(call)
       THEN /\ exc' = "ValueError"
            /\ fault' = "bind"
            /\ pc' = "exit"
            /\ UNCHANGED <<tx, seq, df, executed, sent>>
       ELSE /\ executed' = TRUE
            /\ sent' = Append(sent, <<call.verb, call.tbl>>)
            /\ \/ /\ ~Mistyped(Bind(call))
                  /\ ~Violates(Bind(call), tx, seq, onDelete)
                  /\ tx' = StmtEffect(Bind(call), tx, seq)
                  /\ seq' = StmtSeq(call, seq)
                  /\ df' \in StmtRows(Bind(call), tx, seq)
                  /\ pc' = "exit"
                  /\ UNCHANGED <<exc, fault>>
               \/ /\ exc' = IF Mistyped(Bind(call)) THEN "DataError"
                             ELSE "IntegrityError"
                  /\ fault' = "statement"
                  /\ pc' = "exit"
                  /\ UNCHANGED <<tx, seq, df>>
               \/ /\ pc' = "running"
                  /\ UNCHANGED <<tx, seq, df, exc, fault>>
    /\ UNCHANGED <<program, env, db, onDelete, call, pre, result, raised,
                   message, connected, prev, ncalls>>
    /\ UNCHANGED outside

(* The server cancels a statement that has run for statement_timeout ms. *)
StatementTimeout ==
    /\ pc = "running"
    /\ SessionTimeout(program) > 0
    /\ exc' = "OperationalError"
    /\ fault' = "timeout"
    /\ pc' = "exit"
    /\ UNCHANGED <<program, env, db, tx, seq, onDelete, call, pre, df, result,
                   raised, message, connected, executed, prev, ncalls>>
    /\ UNCHANGED <<outside, sent>>

(* A block that keeps what the statement did whatever happens after it *)
ExitWithoutRollback(committed, working, e, commit_ok) == working

(* What `with engine.begin()` leaves committed when the block ends with  *)
(* exception e (or none) and the COMMIT it then issues succeeds or not.  *)
TransactionExit(committed, working, e, commit_ok) ==
    IF e = "" /\ commit_ok THEN working ELSE committed

(* `return df.iloc[0].to_dict() if not df.empty else None` *)
MutationReturn(frame) == IF frame # EmptyDataFrame THEN frame[1] ELSE NoRow

(* `return df.iloc[0].to_dict()` without the guard: IndexError on an     *)
(* empty frame                                                           *)
UnguardedReturnRaises(e, commit_ok, frame) ==
    e # "" \/ ~commit_ok \/ frame = EmptyDataFrame

(* What leaves a mutation function as an exception: whatever was raised  *)
(* inside the block (engine.begin re-raises after the rollback) or by    *)
(* the COMMIT; there is no try/except, and the return expression raises  *)
(* nothing, an empty frame included.                                     *)
MutationRaises(e, commit_ok, frame) == e # "" \/ ~commit_ok

(* End of a mutation: the transaction block exits, then the function     *)
(* returns; nothing in it catches an exception.                          *)
BeginExit ==
    /\ pc = "exit"
    /\ call.via = "begin"
    /\ \E commit_ok \in BOOLEAN :
          LET fails == MutationRaises(exc, commit_ok, df)
          IN /\ db' = TransactionExit(db, tx, exc, commit_ok)
             /\ tx' = db'
             /\ raised' = fails
             /\ result' = IF fails THEN NoRow ELSE MutationReturn(df)
             /\ fault' = IF exc = "" /\ ~commit_ok THEN "commit" ELSE fault
    /\ exc' = ""
    /\ pc' = "idle"
    /\ UNCHANGED <<program, env, seq, onDelete, call, pre, df, message,
                   connected, executed, prev, ncalls>>
    /\ UNCHANGED <<outside, sent>>

(* A handler for the driver's errors only: the pool's own TimeoutError   *)
(* is not one of them                                                    *)
CatchesDriverErrors(e) == e \in {"IntegrityError", "OperationalError"}

(* fetch_df: `except Exception as e: st.error(...); return pd.DataFrame()` *)
FetchDfCatches(e) == e # ""

(* End of fetch_df: the connection goes back to the pool; on an          *)
(* exception the handler reports it and returns an empty DataFrame.      *)
fetch_df ==
    /\ pc = "exit"
    /\ call.via = "fetch_df"
    /\ tx' = db
    /\ IF exc = ""
       THEN result' = df /\ message' = message /\ raised' = FALSE
       ELSE IF FetchDfCatches(exc)
            THEN result' = EmptyDataFrame /\ message' = TRUE /\ raised' = FALSE
            ELSE result' = NoRow /\ message' = message /\ raised' = TRUE
    /\ exc' = ""
    /\ pc' = "idle"
    /\ UNCHANGED <<program, env, db, seq, onDelete, call, pre, df, connected,
                   executed, prev, fault, ncalls>>
    /\ UNCHANGED <<outside, sent>>

(* End of test.py: print(df.head()), or the traceback of whatever was    *)
(* raised; either way the script is over.                                *)
ConnectExit ==
    /\ pc = "exit"
    /\ call.via = "connect"
    /\ tx' = db
    /\ raised' = (exc # "")
    /\ result' = IF exc = "" THEN df ELSE NoRow
    /\ exc' = ""
    /\ pc' = "ended"
    /\ UNCHANGED <<program, env, db, seq, onDelete, call, pre, df, message,
                   connected, executed, prev, fault, ncalls>>
    /\ UNCHANGED <<outside, sent>>

-----------------------------------------------------------------------------
(* app_full_crud.py: the page.  A script run renders the five tabs in    *)
(* order; in each, the flash loop, the list, then the handler of the     *)
(* form or button whose submission started the run, if it is in that     *)
(* tab.                                                                  *)

(* Text typed into an st.text_input, and str.strip() of it *)
TextInputs == {"a", " b ", " "}
strip(text) ==
    CASE text = " b " -> "b"
      [] text = " " -> ""
      [] OTHER -> text

(* `x or None` for a str x *)
OrNone(x) == IF x = "" THEN None ELSE x

(* The columns of the rows pandas gets back, named as the store names    *)
(* them: unquoted identifiers come back in lower case.                   *)
Columns(tbl) ==
    CASE tbl = "User_table" -> <<"userid", "username">>
      [] tbl = "Artist" -> <<"artistid", "artist_name", "artist_location">>
      [] tbl = "Song" -> <<"song_id", "songname", "dayreleased">>
      [] tbl = "Playlist" -> <<"playlistid", "playlist_name", "num_songs">>

(* df.iloc[0].to_dict() *)
to_dict(cols, row) ==
    [k \in {cols[i] : i \in DOMAIN cols} |->
        row[CHOOSE i \in DOMAIN cols : cols[i] = k]]

(* rec.get(k, default) *)
get(rec, k, default) == IF k \in DOMAIN rec THEN rec[k] ELSE default

(* Truth value of a dict or None *)
TruthyRec(rec) == DOMAIN rec # {}

(* A value as an f-string prints it *)
str(v) == IF IsInt(v) THEN ToString(v) ELSE v

FlashOrder == <<"just_inserted", "just_updated", "just_deleted">>

FlashWord(key) ==
    CASE key = "just_inserted" -> "Inserted"
      [] key = "just_updated" -> "Updated"
      [] key = "just_deleted" -> "Deleted"

(* The slot each kind of handler writes *)
FlashKey(verb) ==
    CASE verb = "INSERT" -> "just_inserted"
      [] verb = "UPDATE" -> "just_updated"
      [] verb = "DELETE" -> "just_deleted"

(* st.success(f"{icon} {msg} <noun>: {name} (ID {id})") of tab t *)
FlashMessage(t, msg, rec) ==
    CASE t = 1 -> <<msg, "user",
                    str(get(rec, "username", get(rec, "userName", "N/A"))),
                    str(get(rec, "userid", get(rec, "userID", "N/A")))>>
      [] t = 2 -> <<msg, "artist",
                    str(get(rec, "artist_name", "N/A")),
                    str(get(rec, "artistid", "N/A"))>>
      [] t = 3 -> <<msg, "song",
                    str(get(rec, "songname", get(rec, "songName", "N/A"))),
                    str(get(rec, "song_id", "N/A"))>>
      [] t = 5 -> <<msg, "playlist",
                    str(get(rec, "playlist_name", "N/A")),
                    str(get(rec, "playlistid", "N/A"))>>

(* A script run starts: first load, or an interaction with a widget.     *)
(* setdefault leaves the flash slots as the session has them.            *)
ScriptRun ==
    /\ program = "app_full_crud"
    /\ pc = "idle"
    /\ tab = 0
    /\ renders < MaxRenders
    /\ tab' = 1
    /\ stage' = "flash"
    /\ shown' = <<>>
    /\ submitted' = FALSE
    /\ mutated' = FALSE
    /\ ended' = ""
    /\ renders' = renders + 1
    /\ ncalls' = 0
    /\ UNCHANGED <<callstate, sess, flash, nshown, stored>>

(* The flash loop without `st.session_state[key] = None` *)
FlashLoopKeeps ==
    /\ tab \in {1, 2, 3, 5}
    /\ stage = "flash"
    /\ LET lit == SelectSeq(FlashOrder, LAMBDA k : TruthyRec(flash[k]))
       IN /\ shown' = shown \o [i \in 1..Len(lit) |->
                          FlashMessage(tab, FlashWord(lit[i]), flash[lit[i]])]
          /\ nshown' = nshown + Len(lit)
    /\ flash' = flash
    /\ stage' = "body"
    /\ UNCHANGED <<run, sess, tab, stored, submitted, mutated, ended, renders>>

(* The flash loop at the head of tabs 1, 2, 3 and 5: every slot that     *)
(* holds a record is displayed, as this tab words it, and set to None.   *)
FlashLoop ==
    /\ tab \in {1, 2, 3, 5}
    /\ stage = "flash"
    /\ LET lit == SelectSeq(FlashOrder, LAMBDA k : TruthyRec(flash[k]))
       IN /\ shown' = shown \o [i \in 1..Len(lit) |->
                          FlashMessage(tab, FlashWord(lit[i]), flash[lit[i]])]
          /\ nshown' = nshown + Len(lit)
    /\ flash' = [k \in FlashKeys |-> IF TruthyRec(flash[k]) THEN NoRow ELSE flash[k]]
    /\ stage' = "body"
    /\ UNCHANGED <<run, sess, tab, stored, submitted, mutated, ended, renders>>

(* The list of the tab being rendered *)
TabFetch ==
    /\ stage = "body"
    /\ ncalls = 0
    /\ \/ tab = 1 /\ fetch_users
       \/ tab = 2 /\ fetch_artists
       \/ tab = 3 /\ \E row_limit \in 1..MaxLim : fetch_songs(int(row_limit))
       \/ tab = 4 /\ fetch_albums
       \/ tab = 5 /\ fetch_playlists

(* The tab's list is on the page and the run has reached its forms; the  *)
(* run was started by a submission in this tab.                          *)
Submitted(t) ==
    /\ tab = t
    /\ stage = "body"
    /\ pc = "idle"
    /\ ncalls = 1
    /\ ~submitted
    /\ renders < MaxRenders

(* The keys the tab's selectboxes offer: those of the rows just listed *)
Choices(frame) == {frame[i][1] : i \in DOMAIN frame}

(* st.warning(text); the run goes on *)
Warning(text) ==
    /\ shown' = Append(shown, <<"warning", text>>)
    /\ submitted' = TRUE
    /\ stage' = "handled"
    /\ UNCHANGED <<run, sess, flash, tab, nshown, stored, mutated, ended, renders>>

insert_user_form(username) ==
    /\ Submitted(1)
    /\ IF strip(username) = ""
       THEN Warning("Username is required.")
       ELSE insert_user(strip(username))

update_user_form(sel_uid, new_username) ==
    /\ Submitted(1)
    /\ result # EmptyDataFrame
    /\ sel_uid \in Choices(result)
    /\ update_user(sel_uid, strip(new_username))

delete_user_button(del_uid, confirm) ==
    /\ Submitted(1)
    /\ result # EmptyDataFrame
    /\ del_uid \in Choices(result)
    /\ IF ~confirm
       THEN Warning("Please confirm before deleting.")
       ELSE delete_user(int(del_uid))

insert_artist_form(artist_name, artist_location) ==
    /\ Submitted(2)
    /\ IF strip(artist_name) = ""
       THEN Warning("Artist name is required.")
       ELSE insert_artist(strip(artist_name), OrNone(strip(artist_location)))

update_artist_form(sel_aid, new_name, new_location) ==
    /\ Submitted(2)
    /\ result # EmptyDataFrame
    /\ sel_aid \in Choices(result)
    /\ update_artist(sel_aid, strip(new_name), OrNone(strip(new_location)))

delete_artist_button(del_aid, confirm) ==
    /\ Submitted(2)
    /\ result # EmptyDataFrame
    /\ del_aid \in Choices(result)
    /\ IF ~confirm
       THEN Warning("Please confirm before deleting.")
       ELSE delete_artist(int(del_aid))

insert_song_form(song_name, date_released) ==
    /\ Submitted(3)
    /\ IF strip(song_name) = ""
       THEN Warning("Song name is required.")
       ELSE insert_song(strip(song_name), date_released)

update_song_form(sel_sid, new_song_name, new_date) ==
    /\ Submitted(3)
    /\ result # EmptyDataFrame
    /\ sel_sid \in Choices(result)
    /\ update_song(sel_sid, strip(new_song_name), new_date)

delete_song_button(del_sid, confirm) ==
    /\ Submitted(3)
    /\ result # EmptyDataFrame
    /\ del_sid \in Choices(result)
    /\ IF ~confirm
       THEN Warning("Please confirm before deleting.")
       ELSE delete_song(int(del_sid))

insert_playlist_form(playlist_name, num_songs) ==
    /\ Submitted(5)
    /\ IF strip(playlist_name) = ""
       THEN Warning("Playlist name is required.")
       ELSE insert_playlist(strip(playlist_name), int(num_songs))

update_playlist_form(sel_pid, new_playlist_name, new_num_songs) ==
    /\ Submitted(5)
    /\ result # EmptyDataFrame
    /\ sel_pid \in Choices(result)
    /\ update_playlist(sel_pid, strip(new_playlist_name), int(new_num_songs))

delete_playlist_button(del_pid, confirm) ==
    /\ Submitted(5)
    /\ result # EmptyDataFrame
    /\ del_pid \in Choices(result)
    /\ IF ~confirm
       THEN Warning("Please confirm before deleting.")
       ELSE delete_playlist(int(del_pid))

(* The mutation function has come back to its handler.  An exception     *)
(* ends the script run; `if rec:` with a record puts it in the handler's *)
(* slot and st.rerun() starts the script again from the top; with None   *)
(* the run goes on.                                                      *)
Handler ==
    /\ tab \in 1..5
    /\ stage = "body"
    /\ pc = "idle"
    /\ ncalls = 2
    /\ call.via = "begin"
    /\ IF raised
       THEN /\ tab' = 0
            /\ stage' = ""
            /\ ended' = "exception"
            /\ submitted' = TRUE
            /\ mutated' = TRUE
            /\ UNCHANGED <<flash, stored, nshown, shown, renders, ncalls>>
       ELSE IF result # NoRow
       THEN /\ flash' = [flash EXCEPT ![FlashKey(call.verb)] =
                            to_dict(Columns(call.tbl), result)]
            /\ stored' = <<FlashKey(call.verb), call.tbl, result>>
            /\ nshown' = 0
            /\ tab' = 1
            /\ stage' = "flash"
            /\ shown' = <<>>
            /\ submitted' = FALSE
            /\ mutated' = FALSE
            /\ ended' = ""
            /\ renders' = renders + 1
            /\ ncalls' = 0
       ELSE /\ stage' = "handled"
            /\ submitted' = TRUE
            /\ mutated' = TRUE
            /\ UNCHANGED <<flash, stored, nshown, shown, tab, ended, renders,
                           ncalls>>
    /\ UNCHANGED <<callstate, sess>>

(* The tab is done: on to the next one; after the last the run is over.  *)
(* Tab 4 (Albums) has no flash loop.                                     *)
NextTab ==
    /\ tab \in 1..5
    /\ pc = "idle"
    /\ \/ stage = "handled"
       \/ stage = "body" /\ ncalls = 1
    /\ IF tab = 5
       THEN tab' = 0 /\ stage' = "" /\ ended' = "complete"
       ELSE /\ tab' = tab + 1
            /\ stage' = IF tab + 1 = 4 THEN "body" ELSE "flash"
            /\ ended' = ended
    /\ ncalls' = 0
    /\ UNCHANGED <<callstate, sess, flash, shown, nshown, stored, submitted,
                   mutated, renders>>

-----------------------------------------------------------------------------
(* The pool under several sessions.  Streamlit runs the script once per  *)
(* session and interaction, each run on a thread of its own; a run is    *)
(* sequential, so a session asks for one connection at a time.           *)

(* The engine a session's run uses.  app.py takes it from get_engine,    *)
(* which @st.cache_resource evaluates once for the whole server (engine  *)
(* 0); app_full_crud.py calls create_engine at module level, that is on  *)
(* every run of the script, so each session's run has an engine, and a   *)
(* pool, of its own.                                                     *)
get_engine(prog, s) == IF prog = "app" THEN 0 ELSE s

(* Connections checked out of engine e's pool *)
checkedout(e) ==
    Cardinality({s \in Sessions : /\ sess[s] = "holding"
                                  /\ get_engine(program, s) = e})

(* engine.connect() / engine.begin() in session s: the pool hands out a  *)
(* connection while fewer than pool_size + max_overflow are out,         *)
(* otherwise the caller blocks.                                          *)
PoolGet(s) ==
    /\ sess[s] = "idle"
    /\ sess' = [sess EXCEPT ![s] =
                  IF checkedout(get_engine(program, s)) < pool_size + max_overflow
                  THEN "holding" ELSE "waiting"]
    /\ UNCHANGED <<run, flash, tab, stage, shown, nshown, stored, submitted,
                   mutated, ended, renders>>

(* A blocked caller gets a connection that has come back. *)
PoolHandout(s) ==
    /\ sess[s] = "waiting"
    /\ checkedout(get_engine(program, s)) < pool_size + max_overflow
    /\ sess' = [sess EXCEPT ![s] = "holding"]
    /\ UNCHANGED <<run, flash, tab, stage, shown, nshown, stored, submitted,
                   mutated, ended, renders>>

(* A blocked caller gives up after pool_timeout seconds: TimeoutError. *)
PoolTimeout(s) ==
    /\ sess[s] = "waiting"
    /\ pool_timeout > 0
    /\ sess' = [sess EXCEPT ![s] = "idle"]
    /\ UNCHANGED <<run, flash, tab, stage, shown, nshown, stored, submitted,
                   mutated, ended, renders>>

(* The `with` block ends, by its last statement or by an exception: the  *)
(* connection goes back to its pool.                                     *)
PoolReturn(s) ==
    /\ sess[s] = "holding"
    /\ sess' = [sess EXCEPT ![s] = "idle"]
    /\ UNCHANGED <<run, flash, tab, stage, shown, nshown, stored, submitted,
                   mutated, ended, renders>>

-----------------------------------------------------------------------------
(* Initial states *)

Programs == {"app", "app_full_crud", "test"}

Diagonal(k) == {<<i, i>> : i \in 1..k}

(* A database with k rows in every entity table and association rows     *)
(* P, L, C that reference them.                                          *)
SeedDB(k, P, L, C) ==
    [User_table |-> [i \in 1..k |-> <<"a">>],
     Artist |-> [i \in 1..k |-> <<"a", None>>],
     Song |-> [i \in 1..k |-> <<"a", "2024-01-01">>],
     Playlist |-> [i \in 1..k |-> <<"a", 0>>],
     Album |-> [i \in 1..k |-> <<"a", "2024-01-01">>],
     Produces |-> P, Likes |-> L, Creates |-> C]

(* The databases the views are run on: artists and songs with any       *)
(* names, users, and any produces and likes rows between rows that       *)
(* exist.                                                                *)
ViewDB(an, sn, nu, P, L) ==
    [User_table |-> [i \in 1..nu |-> <<"a">>],
     Artist |-> [i \in DOMAIN an |-> <<an[i], None>>],
     Song |-> [i \in DOMAIN sn |-> <<sn[i], "2024-01-01">>],
     Playlist |-> [i \in 1..0 |-> <<"a", 0>>],
     Album |-> [i \in 1..0 |-> <<"a", "2024-01-01">>],
     Produces |-> P, Likes |-> L, Creates |-> {}]

(* The databases the user-activity view is run on: users of any names,  *)
(* songs, playlists each with a creator, any likes.                      *)
ActivityDB(un, ns, creator, L) ==
    [User_table |-> [i \in DOMAIN un |-> <<un[i]>>],
     Artist |-> [i \in 1..0 |-> <<"a", None>>],
     Song |-> [i \in 1..ns |-> <<"a", "2024-01-01">>],
     Playlist |-> [i \in DOMAIN creator |-> <<"a", 0>>],
     Album |-> [i \in 1..0 |-> <<"a", "2024-01-01">>],
     Produces |-> {}, Likes |-> L,
     Creates |-> {<<creator[p], p>> : p \in DOMAIN creator}]

(* The key generators are ahead of every key in use. *)
InitSeq(d) ==
    [t \in Entities |-> Cardinality(DOMAIN d[t]) + 1]

InitCommon ==
    /\ pc = "startup"
    /\ tx = db
    /\ seq = InitSeq(db)
    /\ call = NoCall
    /\ pre = db
    /\ exc = ""
    /\ fault = ""
    /\ df = EmptyDataFrame
    /\ result = NoRow
    /\ raised = FALSE
    /\ message = FALSE
    /\ connected = FALSE
    /\ executed = FALSE
    /\ prev = [call |-> NoCall, result |-> NoRow, raised |-> FALSE,
               message |-> FALSE]
    /\ sent = <<>>
    /\ sess = [s \in Sessions |-> "idle"]
    /\ flash = [k \in FlashKeys |-> NoRow]
    /\ tab = 0
    /\ stage = ""
    /\ shown = <<>>
    /\ nshown = 0
    /\ stored = NoRow
    /\ submitted = FALSE
    /\ mutated = FALSE
    /\ ended = ""
    /\ renders = 0

Init ==
    /\ program \in Programs
    /\ env \in [Creds -> {None, "", "secret"}]
    /\ \E k \in 0..MaxSeed :
          \E P \in SUBSET Diagonal(k), L \in SUBSET Diagonal(k),
             C \in SUBSET Diagonal(k) : db = SeedDB(k, P, L, C)
    /\ onDelete \in {"restrict", "cascade"}
    /\ ncalls = 0
    /\ InitCommon

(* Either app with its credentials set, on a database whose rows are all *)
(* referenced.                                                           *)
InitRead ==
    /\ program \in {"app", "app_full_crud"}
    /\ env = [k \in Creds |-> "secret"]
    /\ \E k \in 0..MaxSeed :
          db = SeedDB(k, Diagonal(k), Diagonal(k), Diagonal(k))
    /\ onDelete = "restrict"
    /\ ncalls = 0
    /\ InitCommon

(* app_full_crud.py with its credentials set, about to make one call of *)
(* a mutation function.                                                  *)
InitCoerce ==
    /\ program = "app_full_crud"
    /\ env = [k \in Creds |-> "secret"]
    /\ \E k \in 0..MaxSeed : db = SeedDB(k, {}, {}, {})
    /\ onDelete = "restrict"
    /\ ncalls = MaxCalls - 1
    /\ InitCommon

(* app_full_crud.py in one session, its credentials set, on a database  *)
(* of the entity tables.                                                 *)
InitPage ==
    /\ program = "app_full_crud"
    /\ env = [k \in Creds |-> "secret"]
    /\ \E k \in 0..MaxSeed : db = SeedDB(k, {}, {}, {})
    /\ onDelete = "restrict"
    /\ ncalls = 0
    /\ InitCommon

(* Either app with its credentials set, on entity tables of up to MaxId  *)
(* rows.                                                                 *)
InitList ==
    /\ program \in {"app", "app_full_crud"}
    /\ env = [k \in Creds |-> "secret"]
    /\ \E k \in 0..MaxId : db = SeedDB(k, {}, {}, {})
    /\ onDelete = "restrict"
    /\ ncalls = 0
    /\ InitCommon

(* Either app, its credentials set, open in MaxSessions sessions. *)
InitPool ==
    /\ program \in {"app", "app_full_crud"}
    /\ env = [k \in Creds |-> "secret"]
    /\ db = SeedDB(0, {}, {}, {})
    /\ onDelete = "restrict"
    /\ ncalls = 0
    /\ InitCommon

(* app.py with its credentials set, about to render one view. *)
InitApp ==
    /\ program = "app"
    /\ env = [k \in Creds |-> "secret"]
    /\ onDelete = "restrict"
    /\ ncalls = MaxCalls - 1
    /\ InitCommon

(* Any artists, any produces rows, nobody liking anything. *)
InitArtistView ==
    /\ \E na \in 0..MaxArtists, ns \in 0..MaxSongs :
          \E an \in [1..na -> Names], P \in SUBSET ((1..na) \X (1..ns)) :
              db = ViewDB(an, [i \in 1..ns |-> "a"], 0, P, {})
    /\ InitApp

(* Any users, likes and creators of playlists. *)
InitActivityView ==
    /\ \E nu \in 0..MaxUsers, ns \in 0..MaxSongs, np \in 0..MaxPlaylists :
          \E un \in [1..nu -> Names], creator \in [1..np -> 1..nu],
             L \in SUBSET ((1..nu) \X (1..ns)) :
              db = ActivityDB(un, ns, creator, L)
    /\ InitApp

(* Any songs and likes, the artists all of one name. *)
InitLikedView ==
    /\ \E na \in 0..MaxLikedArtists, ns \in 0..MaxSongs, nu \in 0..MaxUsers :
          \E sn \in [1..ns -> Names], P \in SUBSET ((1..na) \X (1..ns)),
             L \in SUBSET ((1..nu) \X (1..ns)) :
              db = ViewDB([i \in 1..na |-> "a"], sn, nu, P, L)
    /\ InitApp

-----------------------------------------------------------------------------
(* Next-state relations and specifications *)

Steps ==
    \/ EngineCheckout
    \/ read_sql
    \/ StatementTimeout
    \/ fetch_df

NextArtistView ==
    \/ Startup
    \/ \E lim \in 1..MaxLim : artist_song_counts(lim)
    \/ Steps

NextActivityView ==
    \/ Startup
    \/ \E lim \in 1..MaxLim : user_activity(lim)
    \/ Steps

NextChart ==
    \/ Startup
    \/ popularity_chart
    \/ Steps

NextLikedView ==
    \/ Startup
    \/ \E lim \in 1..MaxLim : most_liked_songs(lim)
    \/ Steps

(* The reads of both apps *)
NextRead ==
    \/ NextArtistView
    \/ \E lim \in 1..MaxLim : most_liked_songs(lim)
    \/ \E lim \in 1..MaxLim : user_activity(lim)
    \/ popularity_chart
    \/ \E t \in ListTables, lim \in RowLimits : flat_list(t, lim)
    \/ fetch_users
    \/ fetch_artists
    \/ fetch_albums
    \/ \E lim \in 1..MaxLim : fetch_songs(lim)
    \/ fetch_playlists

(* The mutation functions that take an id, a count or a date, called    *)
(* with values of the right type and with others.                        *)
NextCoerce ==
    \/ Startup
    \/ EngineCheckout
    \/ read_sql
    \/ StatementTimeout
    \/ BeginExit
    \/ \E n \in Names, d \in Dates \cup NonDates : insert_song(n, d)
    \/ \E i \in Ids, n \in Names, d \in Dates \cup NonDates : update_song(i, n, d)
    \/ \E v \in NonIntIds, n \in Names, d \in Dates : update_song(v, n, d)
    \/ \E i \in Ids : delete_song(i)
    \/ \E v \in NonIntIds : delete_song(v)
    \/ \E v \in NonIntIds, n \in Names, l \in Locations : update_artist(v, n, l)
    \/ \E v \in NonIntIds : delete_artist(v)
    \/ \E v \in NonIntIds, n \in Names : update_user(v, n)
    \/ \E v \in NonIntIds : delete_user(v)
    \/ \E n \in Names, c \in Counts : insert_playlist(n, c)
    \/ \E n \in Names, c \in NonIntCounts : insert_playlist(n, c)
    \/ \E i \in Ids, n \in Names, c \in NonIntCounts : update_playlist(i, n, c)
    \/ \E v \in NonIntIds, n \in Names, c \in Counts : update_playlist(v, n, c)
    \/ \E v \in NonIntIds : delete_playlist(v)

NextPool ==
    \E s \in Sessions :
        \/ PoolGet(s)
        \/ PoolHandout(s)
        \/ PoolTimeout(s)
        \/ PoolReturn(s)

(* The flat lists of both apps *)
NextList ==
    \/ Startup
    \/ Steps
    \/ \E t \in ListTables, lim \in RowLimits : flat_list(t, lim)
    \/ fetch_users
    \/ fetch_artists
    \/ fetch_albums
    \/ \E lim \in RowLimits : fetch_songs(lim)
    \/ fetch_playlists

NextPage ==
    \/ Startup
    \/ ScriptRun
    \/ FlashLoop
    \/ TabFetch
    \/ Steps
    \/ BeginExit
    \/ \E t \in TextInputs : insert_user_form(t)
    \/ \E i \in Ids, t \in TextInputs : update_user_form(i, t)
    \/ \E i \in Ids, c \in BOOLEAN : delete_user_button(i, c)
    \/ \E t \in TextInputs, l \in TextInputs : insert_artist_form(t, l)
    \/ \E i \in Ids, t \in TextInputs, l \in TextInputs : update_artist_form(i, t, l)
    \/ \E i \in Ids, c \in BOOLEAN : delete_artist_button(i, c)
    \/ \E t \in TextInputs, d \in Dates : insert_song_form(t, d)
    \/ \E i \in Ids, t \in TextInputs, d \in Dates : update_song_form(i, t, d)
    \/ \E i \in Ids, c \in BOOLEAN : delete_song_button(i, c)
    \/ \E t \in TextInputs, n \in Counts : insert_playlist_form(t, n)
    \/ \E i \in Ids, t \in TextInputs, n \in Counts : update_playlist_form(i, t, n)
    \/ \E i \in Ids, c \in BOOLEAN : delete_playlist_button(i, c)
    \/ Handler
    \/ NextTab

Next ==
    \/ NextRead
    \/ test
    \/ ConnectExit
    \/ BeginExit
    \/ \E n \in Names, d \in Dates : insert_song(n, d)
    \/ \E i \in Ids, n \in Names, d \in Dates : update_song(i, n, d)
    \/ \E i \in Ids : delete_song(i)
    \/ \E n \in Names, l \in Locations : insert_artist(n, l)
    \/ \E i \in Ids, n \in Names, l \in Locations : update_artist(i, n, l)
    \/ \E i \in Ids : delete_artist(i)
    \/ \E n \in Names : insert_user(n)
    \/ \E i \in Ids, n \in Names : update_user(i, n)
    \/ \E i \in Ids : delete_user(i)
    \/ \E n \in Names, c \in Counts : insert_playlist(n, c)
    \/ \E i \in Ids, n \in Names, c \in Counts : update_playlist(i, n, c)
    \/ \E i \in Ids : delete_playlist(i)

Spec == Init /\ [][Next]_vars

ArtistViewSpec == InitArtistView /\ [][NextArtistView]_vars

LikedViewSpec == InitLikedView /\ [][NextLikedView]_vars

ActivityViewSpec == InitActivityView /\ [][NextActivityView]_vars

ChartSpec == InitLikedView /\ [][NextChart]_vars

ReadSpec == InitRead /\ [][NextRead]_vars

CoerceSpec == InitCoerce /\ [][NextCoerce]_vars

PoolSpec == InitPool /\ [][NextPool]_vars

PageSpec == InitPage /\ [][NextPage]_vars

ListSpec == InitList /\ [][NextList]_vars

(* The store and the pool answer: a checkout ends, a statement ends or   *)
(* is cancelled, a block that has ended returns.                         *)
FairReadSpec ==
    /\ ReadSpec
    /\ WF_vars(EngineCheckout)
    /\ WF_vars(read_sql)
    /\ WF_vars(StatementTimeout)
    /\ WF_vars(fetch_df)

-----------------------------------------------------------------------------
(* Properties *)

InFlight == pc \in {"checkout", "execute", "running", "exit"}
MutationDone == pc = "idle" /\ call.via = "begin"
ReadDone == pc = "idle" /\ call.via = "fetch_df"
Likers(d, s) == {l \in d.Likes : l[2] = s}
Produced(d, a) == {p \in d.Produces : p[1] = a}
Injective(f) == \A x, y \in DOMAIN f : x # y => f[x] # f[y]

(* C1: a mutation that the store or the pool fails returns None to its   *)
(* caller and lets no exception out.                                     *)
C1_FailedMutationReturnsNone ==
    (MutationDone /\ fault # "") => (~raised /\ result = NoRow)

(* C2: a read through fetch_df that fails anywhere (checkout, statement, *)
(* statement timeout) returns an empty DataFrame and reports a message,  *)
(* no read ever raises to its caller, and every read that has started    *)
(* returns.                                                              *)
C2_FailedReadIsEmptyAndEveryReadReturns ==
    /\ [](ReadDone => /\ ~raised
                      /\ (fault # "" => result = EmptyDataFrame /\ message))
    /\ (call.via = "fetch_df" /\ InFlight) ~> ReadDone

C2_Witness ==
    ReadDone /\ fault = "timeout" /\ result = EmptyDataFrame /\ message

(* C3: while a mutation is in flight, and after it has failed at any     *)
(* point, every table holds what it held when the mutation started; when *)
(* it has succeeded its statement's effect is committed.                 *)
C3_FailedMutationLeavesNoTrace ==
    call.via = "begin" =>
        /\ InFlight => db = pre
        /\ (pc = "idle" /\ fault # "") => db = pre
        /\ (pc = "idle" /\ fault = "" /\ result # NoRow) =>
              CASE call.verb = "INSERT" ->
                      /\ result[1] \in DOMAIN db[call.tbl]
                      /\ db[call.tbl][result[1]] = call.vals
                [] call.verb = "UPDATE" -> db[call.tbl][call.key] = call.vals
                [] call.verb = "DELETE" -> call.key \notin DOMAIN db[call.tbl]

C3_Witness ==
    /\ MutationDone
    /\ fault = "commit"
    /\ call.verb = "DELETE"
    /\ df # EmptyDataFrame
    /\ db = pre

(* C4: a successful insert returns a row whose key no row had before and *)
(* whose fields are the values passed in, and a list of that table run   *)
(* right after it, with no limit or a limit of at least the row count,   *)
(* contains that row.                                                    *)
C4_InsertThenListShowsNewRow ==
    /\ (MutationDone /\ call.verb = "INSERT" /\ fault = "") =>
          /\ result # NoRow
          /\ result[1] \notin DOMAIN pre[call.tbl]
          /\ Tail(result) = call.args
    /\ ( /\ ReadDone /\ call.verb = "SELECT" /\ fault = ""
         /\ prev.call.verb = "INSERT" /\ prev.call.tbl = call.tbl
         /\ ~prev.raised /\ prev.result # NoRow
         /\ (call.lim = 0 \/ call.lim >= Cardinality(DOMAIN db[call.tbl])) ) =>
          \E i \in DOMAIN result :
              /\ result[i] = prev.result
              /\ Tail(result[i]) = prev.call.args

C4_Witness ==
    /\ ReadDone /\ fault = ""
    /\ call.fn = "fetch_songs"
    /\ prev.call.fn = "insert_song" /\ ~prev.raised /\ prev.result # NoRow
    /\ call.lim = 2
    /\ Cardinality(DOMAIN db.Song) = 2
    /\ result[2] = prev.result

(* C5: an update of a key that is in the table, when the store carries   *)
(* it out, puts the values passed in into that row, returns the new row, *)
(* and leaves the other rows and the set of keys as they were.           *)
C5_UpdateChangesOnlyItsRow ==
    ( /\ MutationDone /\ call.verb = "UPDATE" /\ fault = ""
      /\ call.args[1] \in DOMAIN pre[call.tbl] ) =>
        LET id == call.args[1]
            t == call.tbl
        IN /\ DOMAIN db[t] = DOMAIN pre[t]
           /\ db[t][id] = Tail(call.args)
           /\ result = call.args
           /\ \A k \in (DOMAIN pre[t]) \ {id} : db[t][k] = pre[t][k]

C5_Witness ==
    /\ MutationDone /\ call.verb = "UPDATE" /\ fault = ""
    /\ call.args[1] \in DOMAIN pre[call.tbl]
    /\ Cardinality(DOMAIN pre[call.tbl]) = 2
    /\ pre[call.tbl][call.args[1]] # Tail(call.args)
    /\ db # pre

(* C6: a successful delete of a key that is in the table returns the row *)
(* that had it, and afterwards that key is gone and every other row is   *)
(* as it was.                                                            *)
C6_DeleteRemovesOnlyItsRow ==
    ( /\ MutationDone /\ call.verb = "DELETE" /\ fault = ""
      /\ call.args[1] \in DOMAIN pre[call.tbl] ) =>
        LET id == call.args[1]
            t == call.tbl
        IN /\ result = <<id>> \o pre[t][id]
           /\ DOMAIN db[t] = (DOMAIN pre[t]) \ {id}
           /\ \A k \in (DOMAIN pre[t]) \ {id} : db[t][k] = pre[t][k]

C6_Witness ==
    /\ MutationDone /\ call.verb = "DELETE" /\ fault = ""
    /\ call.args[1] \in DOMAIN pre[call.tbl]
    /\ Cardinality(DOMAIN pre[call.tbl]) = 2
    /\ Cardinality(DOMAIN db[call.tbl]) = 1

(* C7: a delete of a key that is not in the table, which the store       *)
(* carries out, returns None, raises nothing and leaves every table as   *)
(* it was.                                                               *)
C7_DeleteOfAbsentKeyIsNone ==
    ( /\ MutationDone /\ call.verb = "DELETE" /\ fault = ""
      /\ call.args[1] \notin DOMAIN pre[call.tbl] ) =>
        /\ result = NoRow
        /\ ~raised
        /\ db = pre

C7_Witness ==
    /\ MutationDone /\ call.verb = "DELETE" /\ fault = ""
    /\ prev.call.verb = "DELETE" /\ prev.call.tbl = call.tbl
    /\ prev.call.args = call.args
    /\ prev.result # NoRow
    /\ result = NoRow /\ ~raised

(* C8: the most-liked-songs view, with a limit of at least the number of *)
(* songs, has a row of its own for every song of the Song table, with    *)
(* that song's name and the number of Likes rows of that song.           *)
C8_MostLikedListsEverySong ==
    ( /\ ReadDone /\ call.verb = "MOST_LIKED_SONGS" /\ fault = ""
      /\ call.lim >= Cardinality(DOMAIN db.Song) ) =>
        \E f \in [DOMAIN db.Song -> DOMAIN result] :
            /\ Injective(f)
            /\ \A s \in DOMAIN db.Song :
                  /\ result[f[s]][1] = db.Song[s][1]
                  /\ result[f[s]][3] = Cardinality(Likers(db, s))

(* C9: the artist-song-counts view, with a limit of at least the number  *)
(* of artists, has exactly one row per artist, with that artist's name   *)
(* and the number of Produces rows of that artist.                       *)
C9_ArtistCountsListEveryArtistOnce ==
    ( /\ ReadDone /\ call.verb = "ARTIST_SONG_COUNTS" /\ fault = ""
      /\ call.lim >= Cardinality(DOMAIN db.Artist) ) =>
        /\ Len(result) = Cardinality(DOMAIN db.Artist)
        /\ \E f \in [DOMAIN db.Artist -> DOMAIN result] :
              /\ Injective(f)
              /\ \A a \in DOMAIN db.Artist :
                    result[f[a]] =
                        <<db.Artist[a][1], Cardinality(Produced(db, a))>>

C9_Witness ==
    /\ ReadDone /\ call.verb = "ARTIST_SONG_COUNTS" /\ fault = ""
    /\ call.lim = 2
    /\ result = << <<"a", 2>>, <<"a", 0>> >>

(* C10: in a run started with a required credential absent or empty no  *)
(* connection is ever opened and no statement is ever executed.          *)
C10_NoCredentialsNoConnection ==
    ~all(env) => (~connected /\ ~executed)

(* An id int() rejects, or a date or count the column cannot hold *)
BadArgument(c) == BindRaises(c) \/ Mistyped(c)

(* C11: a mutation called with an id, count or date that cannot be      *)
(* coerced to its type acquires no connection, opens no transaction and  *)
(* sends no statement.                                                   *)
C11_BadArgumentNeverReachesStore ==
    (call.via = "begin" /\ BadArgument(call)) =>
        (~connected /\ ~executed /\ pc \notin {"execute", "running"})

(* Connections to the store that are checked out, over all sessions *)
PhysicalCheckedOut == Cardinality({s \in Sessions : sess[s] = "holding"})

(* C12: whatever the sessions do, no more than pool_size + max_overflow  *)
(* (5) connections are checked out at once; a request beyond that waits  *)
(* or times out.                                                         *)
C12_CheckedOutWithinPoolBound ==
    PhysicalCheckedOut <= pool_size + max_overflow

(* C13: a record put in a flash slot is displayed in the script run     *)
(* that follows and in no other, and when a run in which no mutation     *)
(* function was called has rendered its last tab the three slots are     *)
(* empty.                                                                *)
C13_FlashShownOnceThenCleared ==
    /\ (tab = 0 /\ ended = "complete" /\ ~mutated) =>
          \A k \in FlashKeys : ~TruthyRec(flash[k])
    /\ nshown <= 1
    /\ (stored # NoRow /\ ~(tab = 1 /\ stage = "flash")) => nshown = 1

C13_Witness ==
    /\ stored # NoRow
    /\ renders = 3
    /\ tab = 0 /\ ended = "complete" /\ ~mutated
    /\ nshown = 1
    /\ shown = <<>>
    /\ \A k \in FlashKeys : ~TruthyRec(flash[k])

Writes == {"INSERT", "UPDATE", "DELETE"}

(* C14: a call sends at most one statement; a mutation function that     *)
(* gets as far as the store sends exactly one, an INSERT, UPDATE or      *)
(* DELETE on User_table, Artist, Song or Playlist; nothing the           *)
(* application sends writes Album or an association table.               *)
C14_OneStatementOnOneEntityTable ==
    /\ Len(sent) <= 1
    /\ \A i \in DOMAIN sent : sent[i][1] \in Writes => sent[i][2] \in Entities
    /\ call.via = "begin" =>
          /\ \A i \in DOMAIN sent : sent[i][1] \in Writes
          /\ (pc \in {"running", "exit"} /\ fault \notin {"checkout", "bind"}) =>
                Len(sent) = 1
    /\ call.via # "begin" => \A i \in DOMAIN sent : sent[i][1] \notin Writes

(* One DELETE on User_table sent; the Likes row went by the store's      *)
(* cascade.                                                              *)
C14_Witness ==
    /\ MutationDone /\ fault = ""
    /\ sent = << <<"DELETE", "User_table">> >>
    /\ onDelete = "cascade"
    /\ pre.Likes # {} /\ db.Likes = {}

(* C15: a flat list the store has answered was asked with a limit L      *)
(* between 1 and 2000 and holds the min(L, table size) rows of its table *)
(* with the smallest keys, in ascending order of key.  (A query without  *)
(* a LIMIT clause has call.lim = 0.)                                     *)
C15_ListIsFirstRowsUpToLimit ==
    (ReadDone /\ call.verb = "SELECT" /\ fault = "") =>
        LET t == db[call.tbl]
            L == call.lim
        IN /\ min_value <= L /\ L <= max_value
           /\ Len(result) = MinOf(L, Cardinality(DOMAIN t))
           /\ \A i \in DOMAIN result :
                 /\ result[i][1] \in DOMAIN t
                 /\ result[i] = <<result[i][1]>> \o t[result[i][1]]
           /\ \A i, j \in DOMAIN result : i < j => result[i][1] < result[j][1]
           /\ \A k \in DOMAIN t :
                 (\A i \in DOMAIN result : result[i][1] # k) =>
                     \A i \in DOMAIN result : result[i][1] < k

(* C16: the user-activity view, with a limit of at least the number of  *)
(* users, has exactly one row per user, with that user's name, the       *)
(* number of songs the user likes and the number of playlists the user   *)
(* created.                                                              *)
C16_UserActivityCountsPerUser ==
    ( /\ ReadDone /\ call.verb = "USER_ACTIVITY" /\ fault = ""
      /\ call.lim >= Cardinality(DOMAIN db.User_table) ) =>
        /\ Len(result) = Cardinality(DOMAIN db.User_table)
        /\ \E f \in [DOMAIN db.User_table -> DOMAIN result] :
              /\ Injective(f)
              /\ \A u \in DOMAIN db.User_table :
                    result[f[u]] =
                        <<db.User_table[u][1],
                          Cardinality({s \in DOMAIN db.Song : <<u, s>> \in db.Likes}),
                          Cardinality({p \in DOMAIN db.Playlist : <<u, p>> \in db.Creates})>>

(* One user with two likes and two playlists, one with neither *)
C16_Witness ==
    /\ ReadDone /\ call.verb = "USER_ACTIVITY" /\ fault = ""
    /\ call.lim = 2
    /\ result = << <<"a", 2, 2>>, <<"b", 0, 0>> >>

(* C17: the confirmation of a successful insert, update or delete of an  *)
(* Artist, Song or Playlist is displayed as that entity's section words  *)
(* it, with the record's name and id: every confirmation on the page     *)
(* after the mutation is "<Inserted|Updated|Deleted> <artist|song|       *)
(* playlist>: <name> (ID <id>)" of the record the handler stored.        *)
C17_ConfirmationInMutatedEntitysSection ==
    (stored # NoRow /\ stored[2] \in {"Artist", "Song", "Playlist"}) =>
        LET noun == CASE stored[2] = "Artist" -> "artist"
                      [] stored[2] = "Song" -> "song"
                      [] stored[2] = "Playlist" -> "playlist"
        IN \A i \in DOMAIN shown :
              Len(shown[i]) = 4 =>
                  shown[i] = <<FlashWord(stored[1]), noun,
                               str(stored[3][2]), str(stored[3][1])>>

(* C18: no User, Artist, Song or Playlist row has an empty or            *)
(* whitespace-only name, and no INSERT or UPDATE of a form whose name is *)
(* empty after trimming is sent to the store.                            *)
C18_NoEmptyNameWritten ==
    /\ \A t \in Entities : \A k \in DOMAIN db[t] : strip(db[t][k][1]) # ""
    /\ (call.verb \in {"INSERT", "UPDATE"} /\ call.vals[1] = "") => sent = <<>>

(* C19: the popularity chart's query yields min(10, number of songs)     *)
(* rows, one per song, each the song's name and the number of its Likes  *)
(* rows, most liked first, and no song left out has more likes than one  *)
(* in the result.                                                        *)
C19_ChartIsTopTenSongs ==
    (ReadDone /\ call.verb = "POPULARITY" /\ fault = "") =>
        LET likes(s) == Cardinality({l \in db.Likes : l[2] = s})
        IN /\ Len(result) = MinOf(10, Cardinality(DOMAIN db.Song))
           /\ \E f \in [DOMAIN result -> DOMAIN db.Song] :
                 /\ Injective(f)
                 /\ \A i \in DOMAIN result :
                       result[i] = <<db.Song[f[i]][1], likes(f[i])>>
                 /\ \A i, j \in DOMAIN result : i < j => result[i][2] >= result[j][2]
                 /\ \A s \in DOMAIN db.Song :
                       (\A i \in DOMAIN result : f[i] # s) =>
                           \A i \in DOMAIN result : likes(s) <= result[i][2]

=============================================================================
